---- MODULE Spec2Model ----
(***************************************************************************)
(* Model of api/deploy.js: the deployment orchestration endpoint.          *)
(*                                                                         *)
(* The file holds two variants of the endpoint.  Variant "A" (lines 1-294) *)
(* is the polling handler (handler, createOrGetProject, createDeployment,  *)
(* waitForDeploymentReady, credential DAWG_TOKEN).  Variant "B" (lines     *)
(* 296-469) is the non-waiting handler (credential VERCEL_TOKEN).          *)
(*                                                                         *)
(* Strings that the code inspects character by character (project names)   *)
(* are sequences of one-character strings.  Template literals are          *)
(* sequences of their parts, so `https://${u}` is <<"https://", u>>.       *)
(* Each action is the code that runs from one await to the next; the       *)
(* remote platform answers a fetch atomically inside the action.           *)
(***************************************************************************)
EXTENDS Integers, Sequences, FiniteSets, TLC

\* ------------------------------------------------------------------ bounds
\* Concurrent direct callers of createOrGetProject.
NumProcs == 2
\* Largest maxAttempts passed by a direct caller of waitForDeploymentReady.
MaxAttemptsArg == 3
\* Longest raw project name of which every string is tried.
MaxShortLen == 3

\* --------------------------------------------------------------- constants
DefaultMaxAttempts == 30
MaxNameLen == 50

Procs == 1..NumProcs

\* JavaScript's undefined (an absent field, an absent argument).  A template
\* literal renders it as the text "undefined".
Undefined == <<"undefined">>
\* A value of req.body.projectName that is truthy but not a string.
NotAString == <<"[number]">>

\* ------------------------------------------------------------- characters
LowerChars == {"a", "b", "c", "e", "i", "l", "m", "o", "s", "t", "y"}
UpperChars == {"A", "B", "C", "M", "S", "Y"}
DigitChars == {"0", "1"}
OtherChars == {" ", "!", "_"}

ToLowerChar(c) ==
  CASE c = "A" -> "a"
    [] c = "B" -> "b"
    [] c = "C" -> "c"
    [] c = "M" -> "m"
    [] c = "S" -> "s"
    [] c = "Y" -> "y"
    [] OTHER -> c

toLowerCase(s) == [i \in 1..Len(s) |-> ToLowerChar(s[i])]

\* .replace(/[^a-z0-9-]/g, '-')
IsValidChar(c) == c \in LowerChars \cup DigitChars \cup {"-"}
replaceInvalid(s) == [i \in 1..Len(s) |-> IF IsValidChar(s[i]) THEN s[i] ELSE "-"]

\* Mutant of collapseDashes: the runs of '-' are removed, .replace(/-+/g, '').
collapseDashes_Remove(s) == SelectSeq(s, LAMBDA c : c # "-")

\* .replace(/-+/g, '-'): every maximal run of '-' becomes one '-'.  The
\* string is scanned in two halves; a run that spans the cut is joined.
RECURSIVE collapseDashes(_)
collapseDashes(s) ==
  IF Len(s) <= 1 THEN s
  ELSE LET h == Len(s) \div 2
           l == collapseDashes(SubSeq(s, 1, h))
           r == collapseDashes(SubSeq(s, h + 1, Len(s)))
       IN IF l[Len(l)] = "-" /\ r[1] = "-" THEN l \o Tail(r) ELSE l \o r

\* .substring(0, n)
substring0(s, n) == IF Len(s) <= n THEN s ELSE SubSeq(s, 1, n)

\* Mutant of cleanName: the name is cut to 50 characters before the runs of
\* '-' are collapsed.
cleanName_TruncateFirst(raw) ==
  collapseDashes(substring0(replaceInvalid(toLowerCase(raw)), MaxNameLen))

\* cleanProjectName: lowercase, replace, collapse, truncate, in that order.
cleanName(raw) ==
  substring0(collapseDashes(replaceInvalid(toLowerCase(raw))), MaxNameLen)

\* JavaScript truthiness of the values the code tests with ! and ||.
Truthy(v) == v # Undefined /\ v # <<>>

\* a || b
OrElse(a, b) == IF Truthy(a) THEN a ELSE b


\* ------------------------------------------------------ outcomes of a call
\* What a stretch of code does when it stops: return a value, throw an Error
\* with a message, suspend at an await, or go on to the next loop iteration.
Return(v) == [kind |-> "return", value |-> v]
Throw(m) == [kind |-> "throw", value |-> m]
Await(at) == [kind |-> "await", value |-> <<at>>]
Continue == [kind |-> "continue", value |-> <<>>]

\* Response.ok
ok(status) == status >= 200 /\ status <= 299

\* `https://${u}`
Https(u) == <<"https://">> \o u

\* ------------------------------------------------------- what a fetch gives
\* A fetch either rejects (transport error) or resolves to an HTTP response.
Rejected(json) ==
  [type |-> "throw", status |-> 0, json |-> json, text |-> <<"fetch failed">>]
HttpResponse(status, json, text) ==
  [type |-> "http", status |-> status, json |-> json, text |-> text]

NoProject == [id |-> 0, name |-> <<>>]
NoDeployment == [id |-> 0, url |-> Undefined]

\* ----------------------------------------------------- createOrGetProject
\* The message the function's own catch block puts in front (line 126 / 401).
ProjectCatchPrefix(v) ==
  IF v = "A" THEN <<"Project handling failed: ">> ELSE <<"Project creation failed: ">>

\* throw new Error(`Failed to create/get project: ...`) (line 122-123 / 398).
ProjectFailure(v, createResponse) ==
  IF v = "A"
  THEN <<"Failed to create/get project: ", ToString(createResponse.status), " - ">>
         \o createResponse.text
  ELSE <<"Failed to create/get project: ", ToString(createResponse.status)>>

\* Mutant of afterCreateProject: a 409 is answered from the create response
\* itself, without the fetch by name.
afterCreateProject_NoFetch(v, createResponse) ==
  IF createResponse.type = "throw"
  THEN Throw(ProjectCatchPrefix(v) \o createResponse.text)
  ELSE IF ok(createResponse.status) \/ createResponse.status = 409
  THEN Return(createResponse.json)
  ELSE Throw(ProjectCatchPrefix(v) \o ProjectFailure(v, createResponse))

\* Mutant of afterCreateProject: every non-2xx answer leads to the fetch by
\* name, not only a 409.
afterCreateProject_AlwaysFetch(v, createResponse) ==
  IF createResponse.type = "throw"
  THEN Throw(ProjectCatchPrefix(v) \o createResponse.text)
  ELSE IF ok(createResponse.status) THEN Return(createResponse.json)
  ELSE Await("getProject")

\* The code after `await fetch(POST /projects)` up to the next await.
afterCreateProject(v, createResponse) ==
  IF createResponse.type = "throw"
  THEN Throw(ProjectCatchPrefix(v) \o createResponse.text)
  ELSE IF ok(createResponse.status) THEN Return(createResponse.json)
  ELSE IF createResponse.status = 409 THEN Await("getProject")
  ELSE Throw(ProjectCatchPrefix(v) \o ProjectFailure(v, createResponse))

\* The code after `await fetch(GET /projects/{name})`.
afterGetProject(v, createResponse, getResponse) ==
  IF getResponse.type = "throw"
  THEN Throw(ProjectCatchPrefix(v) \o getResponse.text)
  ELSE IF ok(getResponse.status) THEN Return(getResponse.json)
  ELSE Throw(ProjectCatchPrefix(v) \o ProjectFailure(v, createResponse))

\* --------------------------------------------------------- createDeployment
\* deploymentPayload (line 202-217 / 440-452); the generated page is one file.
deploymentPayload(project) ==
  [name |-> project.name, project |-> project.id, target |-> "production",
   files |-> <<"index.html">>]

\* Mutant of afterCreateDeployment: the test of deploymentResponse.ok is missing.
afterCreateDeployment_NoOkCheck(v, deploymentResponse) ==
  IF deploymentResponse.type = "throw"
  THEN IF v = "A" THEN Throw(<<"Deployment failed: ">> \o deploymentResponse.text)
       ELSE Throw(deploymentResponse.text)
  ELSE Return(deploymentResponse.json)

\* The code after `await fetch(POST /deployments)`.
afterCreateDeployment(v, deploymentResponse) ==
  IF deploymentResponse.type = "throw"
  THEN IF v = "A" THEN Throw(<<"Deployment failed: ">> \o deploymentResponse.text)
       ELSE Throw(deploymentResponse.text)
  ELSE IF ~ok(deploymentResponse.status)
  THEN IF v = "A"
       THEN Throw(<<"Deployment failed: ", "Deployment creation failed: ",
                    ToString(deploymentResponse.status), " - ">>
                  \o deploymentResponse.text)
       ELSE Throw(<<"Deployment failed: ">> \o deploymentResponse.text)
  ELSE Return(deploymentResponse.json)

\* --------------------------------------------------- waitForDeploymentReady
TimeoutMaxAttempts == <<"Deployment timeout: Maximum attempts reached">>

\* Mutant of waitCatch: the test of deploymentUrl is missing.
waitCatch_NoUrlTest(attempt, maxAttempts, deploymentUrl, message) ==
  IF attempt = maxAttempts THEN Return(Https(deploymentUrl)) ELSE Continue

\* The catch block of the loop body (line 279-290).
waitCatch(attempt, maxAttempts, deploymentUrl, message) ==
  IF attempt = maxAttempts
  THEN IF Truthy(deploymentUrl) THEN Return(Https(deploymentUrl))
       ELSE Throw(<<"Deployment timeout: ">> \o message)
  ELSE Continue

\* Mutant of pollBody: READY returns the URL of the submission, not the URL of
\* the status answer.
pollBody_ReadyReturnsFallback(attempt, maxAttempts, deploymentUrl, statusResponse) ==
  IF statusResponse.type = "throw"
  THEN waitCatch(attempt, maxAttempts, deploymentUrl, statusResponse.text)
  ELSE IF ~ok(statusResponse.status) THEN Continue
  ELSE IF statusResponse.json.readyState = "READY" THEN Return(Https(deploymentUrl))
  ELSE IF statusResponse.json.readyState = "ERROR"
  THEN waitCatch(attempt, maxAttempts, deploymentUrl,
                 <<"Deployment failed: ">>
                   \o OrElse(statusResponse.json.errorMessage, <<"Unknown error">>))
  ELSE IF statusResponse.json.readyState = "CANCELED"
  THEN waitCatch(attempt, maxAttempts, deploymentUrl, <<"Deployment was canceled">>)
  ELSE Await("delay")

\* Mutant of pollBody: a non-2xx status answer ends the call.
pollBody_FailedCheckThrows(attempt, maxAttempts, deploymentUrl, statusResponse) ==
  IF statusResponse.type = "throw"
  THEN waitCatch(attempt, maxAttempts, deploymentUrl, statusResponse.text)
  ELSE IF ~ok(statusResponse.status)
  THEN Throw(<<"Status check failed: ", ToString(statusResponse.status)>>)
  ELSE IF statusResponse.json.readyState = "READY"
  THEN Return(Https(statusResponse.json.url))
  ELSE IF statusResponse.json.readyState = "ERROR"
  THEN waitCatch(attempt, maxAttempts, deploymentUrl,
                 <<"Deployment failed: ">>
                   \o OrElse(statusResponse.json.errorMessage, <<"Unknown error">>))
  ELSE IF statusResponse.json.readyState = "CANCELED"
  THEN waitCatch(attempt, maxAttempts, deploymentUrl, <<"Deployment was canceled">>)
  ELSE Await("delay")

\* The loop body from the status fetch to the delay (line 245-277).
pollBody(attempt, maxAttempts, deploymentUrl, statusResponse) ==
  IF statusResponse.type = "throw"
  THEN waitCatch(attempt, maxAttempts, deploymentUrl, statusResponse.text)
  ELSE IF ~ok(statusResponse.status) THEN Continue
  ELSE IF statusResponse.json.readyState = "READY"
  THEN Return(Https(statusResponse.json.url))
  ELSE IF statusResponse.json.readyState = "ERROR"
  THEN waitCatch(attempt, maxAttempts, deploymentUrl,
                 <<"Deployment failed: ">>
                   \o OrElse(statusResponse.json.errorMessage, <<"Unknown error">>))
  ELSE IF statusResponse.json.readyState = "CANCELED"
  THEN waitCatch(attempt, maxAttempts, deploymentUrl, <<"Deployment was canceled">>)
  ELSE Await("delay")

\* Mutant of nextAttempt: when the attempts run out the deployment is
\* submitted again.
nextAttempt_Resubmit(attempt, maxAttempts) ==
  IF attempt + 1 <= maxAttempts THEN Await("poll") ELSE Await("createDeployment")

\* Mutant of nextAttempt: the loop test is missing.
nextAttempt_NoBound(attempt, maxAttempts) == Await("poll")

\* attempt++ and the loop test (line 244), then line 293 when the loop ends.
nextAttempt(attempt, maxAttempts) ==
  IF attempt + 1 <= maxAttempts THEN Await("poll") ELSE Throw(TimeoutMaxAttempts)

\* The call itself: attempt = 1 and the first loop test.
enterLoop(maxAttempts) == nextAttempt(0, maxAttempts)

\* ------------------------------------------------------------------ handler
Respond(status, body) == [kind |-> "respond", status |-> status, body |-> body]
Failure(message) == [success |-> FALSE, error |-> message]

DawgTokenMissing ==
  <<"DAWG_TOKEN environment variable is not set. Please add your Vercel token in environment variables.">>
VercelTokenMissing == <<"VERCEL_TOKEN environment variable is not set">>
NotMultipart == <<"Content-Type must be multipart/form-data">>
NameRequired == <<"Project name is required">>
DestructureError ==
  <<"Cannot destructure property 'projectName' of 'req.body' as it is undefined.">>
NotAFunctionError == <<"projectName.toLowerCase is not a function">>

\* Mutant of handlerCatch: the caught message is dropped for a fixed one.
handlerCatch_FixedMessage(v, message) ==
  Respond(500, Failure(<<"Unknown deployment error occurred">>))

\* catch (error) of the handler (line 75-81 / 357-363).
handlerCatch(v, message) ==
  IF v = "A"
  THEN Respond(500, Failure(OrElse(message, <<"Unknown deployment error occurred">>)))
  ELSE Respond(500, Failure(message))

\* Validation and sanitizing, from the destructuring of req.body on.
validateAndClean(v, req) ==
  IF ~req.hasBody THEN handlerCatch(v, DestructureError)
  ELSE IF ~Truthy(req.projectName)
  THEN Respond(400, Failure(NameRequired))
  ELSE IF req.projectName = NotAString THEN handlerCatch(v, NotAFunctionError)
  ELSE [kind |-> "call", value |-> cleanName(req.projectName)]

\* Mutant of handlerEntry: the credential is never tested.
handlerEntry_NoTokenCheck(v, token, req) ==
  IF req.method = "OPTIONS" THEN Respond(200, [ended |-> TRUE])
  ELSE IF req.method # "POST" THEN Respond(405, [error |-> <<"Method not allowed">>])
  ELSE IF v = "A"
  THEN IF ~req.multipart THEN handlerCatch(v, NotMultipart)
       ELSE validateAndClean(v, req)
  ELSE validateAndClean(v, req)

\* The handler up to its first await (line 4-55 / 299-340).
handlerEntry(v, token, req) ==
  IF req.method = "OPTIONS" THEN Respond(200, [ended |-> TRUE])
  ELSE IF req.method # "POST" THEN Respond(405, [error |-> <<"Method not allowed">>])
  ELSE IF v = "A"
  THEN IF ~token
       THEN handlerCatch(v, DawgTokenMissing)
       ELSE IF ~req.multipart
       THEN handlerCatch(v, NotMultipart)
       ELSE validateAndClean(v, req)
  ELSE IF ~req.hasBody THEN handlerCatch(v, DestructureError)
       ELSE IF ~token
       THEN Respond(500, Failure(VercelTokenMissing))
       ELSE validateAndClean(v, req)

\* Mutant of Success: siteName is sent as received, without the default.
Success_NoSiteDefault(url, project, deployment, cleanProjectName, siteName) ==
  [success |-> TRUE, url |-> url, projectId |-> project.id,
   deploymentId |-> deployment.id, projectName |-> cleanProjectName,
   siteName |-> siteName]

\* res.json({success: true, ...}) (line 66-73 / 348-355); Express answers 200.
Success(url, project, deployment, cleanProjectName, siteName) ==
  [success |-> TRUE, url |-> url, projectId |-> project.id,
   deploymentId |-> deployment.id, projectName |-> cleanProjectName,
   siteName |-> OrElse(siteName, cleanProjectName)]


\* -------------------------------------------------------------------- inputs
\* Raw project names; the first and the third sanitize to the same name.
RawNames ==
  { <<"M", "y", " ", "S">>, <<" ">>, <<"m", "y", "-", "s">> }
CleanNames == { cleanName(r) : r \in RawNames }
\* req.body.projectName: a name, or absent, empty, or not a string.
ProjectNameInputs ==
  { <<"M", "y", " ", "S">>, <<" ">>, Undefined, <<>>, NotAString }
SiteNameInputs == {Undefined, <<>>, <<"Cool">>}
Requests ==
  [method : {"OPTIONS", "GET", "POST"}, multipart : BOOLEAN, hasBody : BOOLEAN,
   projectName : ProjectNameInputs, siteName : SiteNameInputs]
NoRequest ==
  [method |-> "POST", multipart |-> TRUE, hasBody |-> FALSE,
   projectName |-> Undefined, siteName |-> Undefined]

\* Hosts the platform puts in a deployment's url field.
DeploymentHost == <<"my-s-abc.vercel.app">>
AliasHost == <<"my-s.vercel.app">>
ReadyStates == {"QUEUED", "BUILDING", "READY", "ERROR", "CANCELED"}
NoStatus == [readyState |-> "", url |-> Undefined, errorMessage |-> Undefined]

\* --------------------------------------------------------------------- state
VARIABLES
  token,        \* DAWG_TOKEN / VERCEL_TOKEN is set in the environment
  entry,        \* per call: what was called ("handler", "wait", "resolve", "off")
  variant,      \* per call: which variant of the file runs ("A" or "B")
  req,          \* per call: the request of a handler invocation
  pc,           \* per call: the await the call is suspended at
  frame,        \* per call: the local variables of the running functions
  responses,    \* per call: what was sent through res
  resolved,     \* per call: how createOrGetProject ended
  submitted,    \* per call: how createDeployment ended
  waited,       \* per call: how waitForDeploymentReady ended
  calls,        \* per call: the requests sent to the platform, in order
  delays,       \* per call: the 2 second suspensions that completed
  seen,         \* per call: what the status queries reported so far
  projects,     \* platform: the projects that exist
  deployments,  \* platform: the deployments that were created
  nextId        \* platform: the next fresh id

vars ==
  <<token, entry, variant, req, pc, frame, responses, resolved, submitted,
    waited, calls, delays, seen, projects, deployments, nextId>>

inputs == <<token, entry, variant, req>>

None == [kind |-> "none", value |-> <<>>]
NothingSeen ==
  [ready |-> FALSE, error |-> FALSE, canceled |-> FALSE, failedCheck |-> FALSE,
   readyUrl |-> Undefined]

NoFrame ==
  [cleanProjectName |-> <<>>, projectName |-> <<>>, createResponse |-> Rejected(NoProject),
   getResponse |-> Rejected(NoProject), deploymentResponse |-> Rejected(NoDeployment),
   project |-> NoProject, deployment |-> NoDeployment,
   deploymentId |-> 0, deploymentUrl |-> Undefined, maxAttempts |-> 0, attempt |-> 0]

Call(op, name, project, id) ==
  [op |-> op, name |-> name, project |-> project, id |-> id]

\* ------------------------------------------------------- the remote platform
ProjectsNamed(name) == { q \in projects : q.name = name }

\* POST /projects: creates the project atomically, or answers 409 when the
\* name is taken; it may also fail without creating anything.
CreateProjectAnswers(name) ==
  { Rejected(NoProject), HttpResponse(500, NoProject, <<"Internal Server Error">>) }
    \cup (IF ProjectsNamed(name) # {}
          THEN { HttpResponse(409, NoProject, <<"Conflict">>) }
          ELSE { HttpResponse(200, [id |-> nextId, name |-> name], <<>>) })

\* GET /projects/{name}
GetProjectAnswers(name) ==
  { Rejected(NoProject), HttpResponse(500, NoProject, <<"Internal Server Error">>) }
    \cup { HttpResponse(200, q, <<>>) : q \in ProjectsNamed(name) }
    \cup (IF ProjectsNamed(name) = {}
          THEN { HttpResponse(404, NoProject, <<"Not Found">>) } ELSE {})

\* POST /deployments
CreateDeploymentAnswers ==
  { Rejected(NoDeployment), HttpResponse(400, NoDeployment, <<"Bad Request">>) }
    \cup { HttpResponse(200, [id |-> nextId, url |-> u], <<>>) :
             u \in {DeploymentHost, Undefined} }

\* GET /deployments/{id}
StatusAnswers ==
  { Rejected(NoStatus), HttpResponse(500, NoStatus, <<"Internal Server Error">>) }
    \cup { HttpResponse(200, [readyState |-> r, url |-> DeploymentHost,
                               errorMessage |-> Undefined], <<>>) :
             r \in ReadyStates }
    \cup { HttpResponse(200, [readyState |-> "READY", url |-> AliasHost,
                               errorMessage |-> Undefined], <<>>),
           HttpResponse(200, [readyState |-> "ERROR", url |-> DeploymentHost,
                               errorMessage |-> <<"Build failed">>], <<>>) }

\* ---------------------------------------------------------------------- Init
PreExisting == { {} } \cup { { [id |-> 1, name |-> n] } : n \in CleanNames }

InitCommon ==
  /\ token \in BOOLEAN
  /\ projects \in PreExisting
  /\ deployments = {}
  /\ nextId = 2
  /\ responses = [p \in Procs |-> <<>>]
  /\ resolved = [p \in Procs |-> None]
  /\ submitted = [p \in Procs |-> None]
  /\ waited = [p \in Procs |-> None]
  /\ calls = [p \in Procs |-> <<>>]
  /\ delays = [p \in Procs |-> 0]
  /\ seen = [p \in Procs |-> NothingSeen]

\* One HTTP invocation of the handler.
InitHandler ==
  /\ entry = [p \in Procs |-> IF p = 1 THEN "handler" ELSE "off"]
  /\ \E v \in {"A", "B"} : variant = [p \in Procs |-> v]
  /\ \E r \in Requests : req = [p \in Procs |-> IF p = 1 THEN r ELSE NoRequest]
  /\ pc = [p \in Procs |-> IF p = 1 THEN "handler" ELSE "done"]
  /\ frame = [p \in Procs |-> NoFrame]

\* One direct call waitForDeploymentReady(deploymentId, deploymentUrl, maxAttempts).
InitWait ==
  /\ entry = [p \in Procs |-> IF p = 1 THEN "wait" ELSE "off"]
  /\ variant = [p \in Procs |-> "A"]
  /\ req = [p \in Procs |-> NoRequest]
  /\ pc = [p \in Procs |-> IF p = 1 THEN "wait" ELSE "done"]
  /\ \E u \in {Undefined, <<>>, DeploymentHost}, m \in 0..MaxAttemptsArg :
       frame = [p \in Procs |->
                  IF p = 1
                  THEN [NoFrame EXCEPT !.deploymentId = 1, !.deploymentUrl = u,
                                       !.maxAttempts = m]
                  ELSE NoFrame]

\* Direct calls createOrGetProject(projectName), one per caller, concurrent.
InitResolve ==
  /\ entry = [p \in Procs |-> "resolve"]
  /\ \E v \in {"A", "B"} : variant = [p \in Procs |-> v]
  /\ req = [p \in Procs |-> NoRequest]
  /\ pc = [p \in Procs |-> "createProject"]
  /\ \E names \in [Procs -> CleanNames] :
       frame = [p \in Procs |-> [NoFrame EXCEPT !.projectName = names[p]]]

Init == InitCommon /\ (InitHandler \/ InitWait \/ InitResolve)


\* ------------------------------------------------------------------- actions
Sent(r) == [status |-> r.status, body |-> r.body]

\* The handler runs up to its first await: it answers, or it calls
\* createOrGetProject(cleanProjectName), which suspends at its fetch.
HandlerStart(p) ==
  /\ pc[p] = "handler"
  /\ LET o == handlerEntry(variant[p], token, req[p]) IN
       IF o.kind = "respond"
       THEN /\ responses' = [responses EXCEPT ![p] = Append(@, Sent(o))]
            /\ pc' = [pc EXCEPT ![p] = "done"]
            /\ UNCHANGED frame
       ELSE /\ frame' = [frame EXCEPT ![p].cleanProjectName = o.value,
                                      ![p].projectName = o.value]
            /\ pc' = [pc EXCEPT ![p] = "createProject"]
            /\ UNCHANGED responses
  /\ UNCHANGED <<inputs, resolved, submitted, waited, calls, delays, seen,
                 projects, deployments, nextId>>

\* createOrGetProject stops with outcome o and locals f; a handler that gets
\* a project goes on to createDeployment, which suspends at its fetch.
ProjectDone(p, o, f) ==
  /\ resolved' = [resolved EXCEPT ![p] = IF o.kind = "await" THEN @ ELSE o]
  /\ frame' = [frame EXCEPT ![p] =
                 IF o.kind = "return" THEN [f EXCEPT !.project = o.value] ELSE f]
  /\ pc' = [pc EXCEPT ![p] =
              CASE o.kind = "await" -> o.value[1]
                [] o.kind = "return" /\ entry[p] = "handler" -> "createDeployment"
                [] OTHER -> "done"]
  /\ responses' = [responses EXCEPT ![p] =
                     IF o.kind = "throw" /\ entry[p] = "handler"
                     THEN Append(@, Sent(handlerCatch(variant[p], o.value)))
                     ELSE @]

\* await fetch(POST /projects) and the code after it.
CreateProjectFetch(p) ==
  /\ pc[p] = "createProject"
  /\ \E r \in CreateProjectAnswers(frame[p].projectName) :
       /\ calls' = [calls EXCEPT ![p] =
                      Append(@, Call("POST /projects", frame[p].projectName, 0, 0))]
       /\ IF r.type = "http" /\ ok(r.status)
          THEN projects' = projects \cup {r.json} /\ nextId' = nextId + 1
          ELSE UNCHANGED <<projects, nextId>>
       /\ ProjectDone(p, afterCreateProject(variant[p], r),
                      [frame[p] EXCEPT !.createResponse = r])
  /\ UNCHANGED <<inputs, submitted, waited, delays, seen, deployments>>

\* await fetch(GET /projects/{projectName}) and the code after it.
GetProjectFetch(p) ==
  /\ pc[p] = "getProject"
  /\ \E r \in GetProjectAnswers(frame[p].projectName) :
       /\ calls' = [calls EXCEPT ![p] =
                      Append(@, Call("GET /projects", frame[p].projectName, 0, 0))]
       /\ ProjectDone(p, afterGetProject(variant[p], frame[p].createResponse, r),
                      [frame[p] EXCEPT !.getResponse = r])
  /\ UNCHANGED <<inputs, submitted, waited, delays, seen, projects, deployments,
                 nextId>>

\* Mutant of handlerAfterWait: projectName is answered as it was received.
handlerAfterWait_RawName(v, o, f, r) ==
  IF o.kind = "return"
  THEN Respond(200, Success(o.value, f.project, f.deployment, r.projectName,
                            r.siteName))
  ELSE handlerCatch(v, o.value)

\* What the handler sends once waitForDeploymentReady ended with outcome o.
handlerAfterWait(v, o, f, r) ==
  IF o.kind = "return"
  THEN Respond(200, Success(o.value, f.project, f.deployment, f.cleanProjectName,
                            r.siteName))
  ELSE handlerCatch(v, o.value)

\* waitForDeploymentReady stops with outcome o and locals f.
WaitStep(p, o, f) ==
  /\ frame' = [frame EXCEPT ![p] = f]
  /\ pc' = [pc EXCEPT ![p] = IF o.kind = "await" THEN o.value[1] ELSE "done"]
  /\ waited' = [waited EXCEPT ![p] = IF o.kind = "await" THEN @ ELSE o]
  /\ responses' = [responses EXCEPT ![p] =
                     IF o.kind # "await" /\ entry[p] = "handler"
                     THEN Append(@, Sent(handlerAfterWait(variant[p], o, f, req[p])))
                     ELSE @]

\* attempt++ with the loop test.
Advance(p, f) ==
  WaitStep(p, nextAttempt(f.attempt, f.maxAttempts), [f EXCEPT !.attempt = @ + 1])

\* createDeployment got the answer r: it returns or throws, and the handler
\* goes on; variant A calls waitForDeploymentReady(deployment.id,
\* deployment.url), variant B answers.
DeploymentDone(p, r) ==
  LET o == afterCreateDeployment(variant[p], r)
      f == [frame[p] EXCEPT !.deploymentResponse = r]
  IN
  /\ submitted' = [submitted EXCEPT ![p] = o]
  /\ IF o.kind = "throw"
     THEN /\ responses' = [responses EXCEPT ![p] =
                             Append(@, Sent(handlerCatch(variant[p], o.value)))]
          /\ pc' = [pc EXCEPT ![p] = "done"]
          /\ frame' = [frame EXCEPT ![p] = f]
          /\ UNCHANGED waited
     ELSE IF variant[p] = "A"
     THEN Advance(p, [f EXCEPT !.deployment = o.value,
                               !.deploymentId = o.value.id,
                               !.deploymentUrl = o.value.url,
                               !.maxAttempts = DefaultMaxAttempts,
                               !.attempt = 0])
     ELSE /\ responses' = [responses EXCEPT ![p] =
                             Append(@, Sent(Respond(200,
                               Success(Https(o.value.url), f.project,
                                       o.value, f.cleanProjectName,
                                       req[p].siteName))))]
          /\ frame' = [frame EXCEPT ![p] = [f EXCEPT !.deployment = o.value]]
          /\ pc' = [pc EXCEPT ![p] = "done"]
          /\ UNCHANGED waited

\* await fetch(POST /deployments) and the code after it.
CreateDeploymentFetch(p) ==
  /\ pc[p] = "createDeployment"
  /\ \E r \in CreateDeploymentAnswers :
       LET payload == deploymentPayload(frame[p].project) IN
       /\ calls' = [calls EXCEPT ![p] =
                      Append(@, Call("POST /deployments", payload.name,
                                     payload.project, 0))]
       /\ IF r.type = "http" /\ ok(r.status)
          THEN /\ deployments' = deployments \cup {[id |-> r.json.id, payload |-> payload]}
               /\ nextId' = nextId + 1
          ELSE UNCHANGED <<deployments, nextId>>
       /\ DeploymentDone(p, r)
  /\ UNCHANGED <<inputs, resolved, delays, seen, projects>>

\* A direct call of waitForDeploymentReady: attempt = 1 and the loop test.
WaitCall(p) ==
  /\ pc[p] = "wait"
  /\ Advance(p, [frame[p] EXCEPT !.attempt = 0])
  /\ UNCHANGED <<inputs, resolved, submitted, calls, delays, seen, projects,
                 deployments, nextId>>

\* What a status answer adds to what was seen.
Observe(s, r) ==
  IF r.type = "throw" \/ ~ok(r.status) THEN [s EXCEPT !.failedCheck = TRUE]
  ELSE [s EXCEPT !.ready = @ \/ r.json.readyState = "READY",
                 !.readyUrl = IF r.json.readyState = "READY" THEN r.json.url ELSE @,
                 !.error = @ \/ r.json.readyState = "ERROR",
                 !.canceled = @ \/ r.json.readyState = "CANCELED"]

\* await fetch(GET /deployments/{deploymentId}) and the loop body after it.
PollFetch(p) ==
  /\ pc[p] = "poll"
  /\ \E r \in StatusAnswers :
       LET f == frame[p]
           o == pollBody(f.attempt, f.maxAttempts, f.deploymentUrl, r)
       IN
       /\ calls' = [calls EXCEPT ![p] =
                      Append(@, Call("GET /deployments", <<>>, 0, f.deploymentId))]
       /\ seen' = [seen EXCEPT ![p] = Observe(@, r)]
       /\ IF o.kind = "continue" THEN Advance(p, f) ELSE WaitStep(p, o, f)
  /\ UNCHANGED <<inputs, resolved, submitted, delays, projects, deployments, nextId>>

\* await new Promise(resolve => setTimeout(resolve, 2000)) completes.
Delay(p) ==
  /\ pc[p] = "delay"
  /\ delays' = [delays EXCEPT ![p] = @ + 1]
  /\ Advance(p, frame[p])
  /\ UNCHANGED <<inputs, resolved, submitted, calls, seen, projects, deployments,
                 nextId>>

Next ==
  \E p \in Procs :
    \/ HandlerStart(p)
    \/ CreateProjectFetch(p)
    \/ GetProjectFetch(p)
    \/ CreateDeploymentFetch(p)
    \/ WaitCall(p)
    \/ PollFetch(p)
    \/ Delay(p)

Spec == Init /\ [][Next]_vars

\* Direct calls of waitForDeploymentReady alone, where every fetch and every
\* delay that is started completes.
InitWaitCalls ==
  /\ InitCommon
  /\ token = TRUE
  /\ projects = {}
  /\ entry = [p \in Procs |-> IF p = 1 THEN "wait" ELSE "off"]
  /\ variant = [p \in Procs |-> "A"]
  /\ req = [p \in Procs |-> NoRequest]
  /\ pc = [p \in Procs |-> IF p = 1 THEN "wait" ELSE "done"]
  /\ \E u \in {Undefined, <<>>, DeploymentHost},
        m \in (0..MaxAttemptsArg) \cup {DefaultMaxAttempts} :
       frame = [p \in Procs |->
                  IF p = 1
                  THEN [NoFrame EXCEPT !.deploymentId = 1, !.deploymentUrl = u,
                                       !.maxAttempts = m]
                  ELSE NoFrame]

NextWait ==
  \E p \in Procs :
    \/ WaitCall(p)
    \/ PollFetch(p)
    \/ Delay(p)

SpecWait ==
  /\ InitWaitCalls
  /\ [][NextWait]_vars
  /\ \A p \in Procs :
       WF_vars(WaitCall(p)) /\ WF_vars(PollFetch(p)) /\ WF_vars(Delay(p))

\* ------------------------------------------- the handler over many raw names
\* Raw names the sanitizing is exercised on: every string of up to
\* MaxShortLen characters over a lowercase letter, an uppercase letter, a
\* digit, '-', a space and a symbol; those strings repeated up to lengths
\* around and beyond the 50 character cap; and "My Cool Site!!!".
NameAlphabet == {"a", "A", "0", "-", " ", "!"}
ShortNames == UNION { [1..n -> NameAlphabet] : n \in 1..MaxShortLen }
LongLens == {MaxNameLen, MaxNameLen + 1, 2 * MaxNameLen + 1}
Repeated(pat, n) == [i \in 1..n |-> pat[((i - 1) % Len(pat)) + 1]]
LongNames == { Repeated(pat, n) : pat \in ShortNames, n \in LongLens }
MyCoolSite ==
  <<"M", "y", " ", "C", "o", "o", "l", " ", "S", "i", "t", "e", "!", "!", "!">>
NameInputs == ShortNames \cup LongNames \cup {MyCoolSite, <<>>, Undefined}

\* One POST of the form with a credential configured; the platform has no
\* project yet or already has the one the name sanitizes to.
InitNames ==
  /\ InitCommon
  /\ token = TRUE
  /\ entry = [p \in Procs |-> IF p = 1 THEN "handler" ELSE "off"]
  /\ \E v \in {"A", "B"} : variant = [p \in Procs |-> v]
  /\ pc = [p \in Procs |-> IF p = 1 THEN "handler" ELSE "done"]
  /\ frame = [p \in Procs |-> NoFrame]
  /\ \E n \in NameInputs :
       /\ req = [p \in Procs |->
                   IF p = 1
                   THEN [method |-> "POST", multipart |-> TRUE, hasBody |-> TRUE,
                         projectName |-> n, siteName |-> Undefined]
                   ELSE NoRequest]
       /\ projects \in {{}, {[id |-> 1, name |-> cleanName(n)]}}

\* The handler up to the project it deploys to.
NextNames ==
  \E p \in Procs :
    \/ HandlerStart(p)
    \/ CreateProjectFetch(p)
    \/ GetProjectFetch(p)

SpecNames == InitNames /\ [][NextNames]_vars

\* --------------------------------------- the two variants, side by side
\* The non-waiting variant handles a request against the platform; then the
\* waiting variant handles the same request and gets, fetch by fetch, the
\* answers the first one got to its project and deployment requests.
NonWaiting == 1
Waiting == 2

InitPair ==
  /\ InitCommon
  /\ entry = [p \in Procs |-> IF p \in {NonWaiting, Waiting} THEN "handler" ELSE "off"]
  /\ variant = [p \in Procs |-> IF p = NonWaiting THEN "B" ELSE "A"]
  /\ pc = [p \in Procs |-> IF p \in {NonWaiting, Waiting} THEN "handler" ELSE "done"]
  /\ frame = [p \in Procs |-> NoFrame]
  /\ \E r \in { q \in Requests : q.method = "POST" /\ q.hasBody } :
       req = [p \in Procs |-> IF p \in {NonWaiting, Waiting} THEN r ELSE NoRequest]

\* await fetch(POST /projects) answered as it was for the non-waiting variant.
SameCreateProjectAnswer(p) ==
  /\ pc[p] = "createProject"
  /\ Len(calls[NonWaiting]) >= 1 /\ calls[NonWaiting][1].op = "POST /projects"
  /\ LET r == frame[NonWaiting].createResponse IN
       /\ calls' = [calls EXCEPT ![p] =
                      Append(@, Call("POST /projects", frame[p].projectName, 0, 0))]
       /\ ProjectDone(p, afterCreateProject(variant[p], r),
                      [frame[p] EXCEPT !.createResponse = r])
  /\ UNCHANGED <<inputs, submitted, waited, delays, seen, projects, deployments,
                 nextId>>

\* await fetch(GET /projects/{projectName}) answered as it was for the
\* non-waiting variant.
SameGetProjectAnswer(p) ==
  /\ pc[p] = "getProject"
  /\ Len(calls[NonWaiting]) >= 2 /\ calls[NonWaiting][2].op = "GET /projects"
  /\ LET r == frame[NonWaiting].getResponse IN
       /\ calls' = [calls EXCEPT ![p] =
                      Append(@, Call("GET /projects", frame[p].projectName, 0, 0))]
       /\ ProjectDone(p, afterGetProject(variant[p], frame[p].createResponse, r),
                      [frame[p] EXCEPT !.getResponse = r])
  /\ UNCHANGED <<inputs, submitted, waited, delays, seen, projects, deployments,
                 nextId>>

\* await fetch(POST /deployments) answered as it was for the non-waiting
\* variant.
SameCreateDeploymentAnswer(p) ==
  /\ pc[p] = "createDeployment"
  /\ submitted[NonWaiting].kind # "none"
  /\ LET payload == deploymentPayload(frame[p].project) IN
       /\ calls' = [calls EXCEPT ![p] =
                      Append(@, Call("POST /deployments", payload.name,
                                     payload.project, 0))]
       /\ DeploymentDone(p, frame[NonWaiting].deploymentResponse)
  /\ UNCHANGED <<inputs, resolved, delays, seen, projects, deployments, nextId>>

NextPair ==
  \/ HandlerStart(NonWaiting)
  \/ CreateProjectFetch(NonWaiting)
  \/ GetProjectFetch(NonWaiting)
  \/ CreateDeploymentFetch(NonWaiting)
  \/ pc[NonWaiting] = "done" /\ HandlerStart(Waiting)
  \/ pc[NonWaiting] = "done" /\ SameCreateProjectAnswer(Waiting)
  \/ pc[NonWaiting] = "done" /\ SameGetProjectAnswer(Waiting)
  \/ pc[NonWaiting] = "done" /\ SameCreateDeploymentAnswer(Waiting)
  \/ pc[NonWaiting] = "done" /\ PollFetch(Waiting)
  \/ pc[NonWaiting] = "done" /\ Delay(Waiting)

SpecPair == InitPair /\ [][NextPair]_vars

\* ------------------------------------------------------------ type invariant
TypeOK ==
  /\ token \in BOOLEAN
  /\ \A p \in Procs :
       /\ pc[p] \in {"handler", "createProject", "getProject", "createDeployment",
                     "wait", "poll", "delay", "done"}
       /\ Len(responses[p]) <= 1
       /\ delays[p] <= frame[p].attempt


\* =================================================================== claims
\* The status queries a call has issued.
Polls(p) == Cardinality({ i \in 1..Len(calls[p]) : calls[p][i].op = "GET /deployments" })

\* waitForDeploymentReady has run in call p (directly or from handler A).
Waits(p) == entry[p] = "wait" \/ (entry[p] = "handler" /\ variant[p] = "A")

\* The one response of a finished handler call is {success:false, error}.
FailureResponse(p) ==
  /\ Len(responses[p]) = 1
  /\ DOMAIN responses[p][1].body = {"success", "error"}
  /\ responses[p][1].body.success = FALSE
  /\ responses[p][1].body.error # <<>>

\* The message holds the given part.
HasPart(message, part) == \E i \in 1..Len(message) : message[i] = part

\* C1: once a status query has reported ERROR (nothing terminal before it),
\* the call has failed with DeploymentFailed: it issues no further query and
\* returns no URL.
C1_ErrorFailsImmediately ==
  \A p \in Procs :
    (Waits(p) /\ seen[p].error /\ ~seen[p].canceled /\ ~seen[p].ready)
      => /\ waited[p].kind = "throw"
         /\ HasPart(waited[p].value, "Deployment failed: ")

\* C2: when all maxAttempts status queries succeeded with a non-terminal
\* readyState and a non-empty fallback URL was supplied, the call returns
\* https://{fallbackUrl}.
C2_ExhaustedReturnsFallback ==
  \A p \in Procs :
    (/\ Waits(p) /\ waited[p].kind # "none"
     /\ frame[p].maxAttempts >= 1 /\ Polls(p) = frame[p].maxAttempts
     /\ ~seen[p].ready /\ ~seen[p].error /\ ~seen[p].canceled /\ ~seen[p].failedCheck
     /\ Truthy(frame[p].deploymentUrl))
      => /\ waited[p].kind = "return"
         /\ waited[p].value = Https(frame[p].deploymentUrl)

\* C3: a call in which a status query reported CANCELED ends in the failure
\* DeploymentCanceled, the handler answers {success:false, error}, and no URL
\* is returned.
C3_CanceledFails ==
  \A p \in Procs :
    (Waits(p) /\ waited[p].kind # "none" /\ seen[p].canceled /\ ~seen[p].error)
      => /\ waited[p].kind = "throw"
         /\ HasPart(waited[p].value, "Deployment was canceled")
         /\ entry[p] = "handler" => FailureResponse(p)

\* C4: when the first k-1 status queries succeeded with a non-terminal
\* readyState and the k-th reports READY, the call returns https://{url of
\* the k-th answer} after exactly k queries and k-1 delays, and no query or
\* delay follows.
C4_ReadyAfterKPolls ==
  \A p \in Procs :
    (/\ Waits(p) /\ seen[p].ready
     /\ ~seen[p].error /\ ~seen[p].canceled /\ ~seen[p].failedCheck)
      => /\ waited[p].kind = "return"
         /\ waited[p].value = Https(seen[p].readyUrl)
         /\ pc[p] = "done"
         /\ Polls(p) = frame[p].attempt
         /\ Polls(p) <= frame[p].maxAttempts
         /\ delays[p] = Polls(p) - 1

C4_Witness ==
  \E p \in Procs :
    /\ entry[p] = "wait" /\ seen[p].ready /\ ~seen[p].failedCheck
    /\ ~seen[p].error /\ ~seen[p].canceled
    /\ Polls(p) = 3 /\ delays[p] = 2
    /\ waited[p] = Return(Https(AliasHost))
    /\ frame[p].deploymentUrl = DeploymentHost

\* C10: when the attempts are exhausted without READY, ERROR or CANCELED and
\* the fallback URL is empty or absent, the call fails with a timeout, the
\* handler answers {success:false, error}, and no URL is returned.
C10_ExhaustedWithoutFallbackTimesOut ==
  \A p \in Procs :
    (/\ Waits(p) /\ waited[p].kind # "none"
     /\ ~seen[p].ready /\ ~seen[p].error /\ ~seen[p].canceled
     /\ ~Truthy(frame[p].deploymentUrl))
      => /\ waited[p].kind = "throw"
         /\ waited[p].value[1] \in {"Deployment timeout: ", TimeoutMaxAttempts[1]}
         /\ Polls(p) = frame[p].maxAttempts
         /\ entry[p] = "handler" => FailureResponse(p)

C10_Witness ==
  \E p \in Procs :
    /\ entry[p] = "handler" /\ waited[p].kind = "throw"
    /\ ~seen[p].ready /\ ~seen[p].error /\ ~seen[p].canceled
    /\ frame[p].deploymentUrl = Undefined
    /\ Polls(p) = DefaultMaxAttempts
    /\ FailureResponse(p)
    /\ responses[p][1].body.error = TimeoutMaxAttempts


\* C5: against a platform that creates a project atomically and answers 409
\* when the name exists, two createOrGetProject calls with the same name
\* never leave two projects of that name; once a call found the name created
\* or taken there is exactly one, every returned project is that one, and two
\* calls that both return a project return the same id.
C5_ResolveTwiceOneProject ==
  /\ \A n \in CleanNames : Cardinality(ProjectsNamed(n)) <= 1
  /\ \A p \in Procs :
       (entry[p] = "resolve" /\ pc[p] = "done")
         => LET n == frame[p].projectName IN
            /\ (frame[p].createResponse.type = "http"
                  /\ frame[p].createResponse.status \in {200, 409})
                 => Cardinality(ProjectsNamed(n)) = 1
            /\ resolved[p].kind = "return" => resolved[p].value \in ProjectsNamed(n)
  /\ \A p, q \in Procs :
       (/\ entry[p] = "resolve" /\ entry[q] = "resolve"
        /\ frame[p].projectName = frame[q].projectName
        /\ resolved[p].kind = "return" /\ resolved[q].kind = "return")
         => resolved[p].value.id = resolved[q].value.id

C5_Witness ==
  \E p, q \in Procs :
    /\ p # q /\ entry[p] = "resolve" /\ entry[q] = "resolve"
    /\ frame[p].projectName = frame[q].projectName
    /\ resolved[p].kind = "return" /\ resolved[q].kind = "return"
    /\ resolved[p].value.id = 2 /\ resolved[q].value.id = 2
    /\ Len(calls[p]) = 1
    /\ Len(calls[q]) = 2 /\ calls[q][2].op = "GET /projects"
    /\ ProjectsNamed(frame[p].projectName) = {resolved[p].value}

\* String.prototype.trim over the whitespace of the alphabet.
RECURSIVE trim(_)
trim(s) ==
  IF Len(s) = 0 THEN s
  ELSE IF s[1] = " " THEN trim(Tail(s))
  ELSE IF s[Len(s)] = " " THEN trim(SubSeq(s, 1, Len(s) - 1))
  ELSE s

\* The project name of the request is missing, empty or only whitespace.
EmptyAfterTrim(r) ==
  \/ r.projectName = Undefined
  \/ r.projectName # NotAString /\ trim(r.projectName) = <<>>

\* C6: a POST whose projectName is empty after trimming is rejected with a
\* failure and no request to the platform is issued in that invocation.
C6_EmptyNameRejected ==
  \A p \in Procs :
    (entry[p] = "handler" /\ req[p].method = "POST" /\ req[p].hasBody
       /\ EmptyAfterTrim(req[p]))
      => /\ calls[p] = <<>>
         /\ pc[p] = "done" => FailureResponse(p)

\* C7: without a configured credential every POST, whatever its body, ends
\* with {success:false, error} and issues no request to the platform.
C7_NoCredentialFails ==
  \A p \in Procs :
    (entry[p] = "handler" /\ req[p].method = "POST" /\ ~token)
      => /\ calls[p] = <<>>
         /\ pc[p] \in {"handler", "done"}
         /\ pc[p] = "done" => FailureResponse(p)

C7_Witness ==
  \E p \in Procs :
    /\ entry[p] = "handler" /\ req[p].method = "POST" /\ ~token
    /\ variant[p] = "B" /\ req[p].hasBody /\ req[p].projectName = <<"M", "y", " ", "S">>
    /\ pc[p] = "done" /\ FailureResponse(p)
    /\ responses[p][1].status = 500
    /\ responses[p][1].body.error = <<"VERCEL_TOKEN environment variable is not set">>

\* The stage of a platform request: project resolution, submission, polling.
Stage(c) ==
  CASE c.op \in {"POST /projects", "GET /projects"} -> 1
    [] c.op = "POST /deployments" -> 2
    [] c.op = "GET /deployments" -> 3

\* C8: in a handler run the platform requests occur in the order resolution,
\* submission, polling.  POST /deployments is issued only after
\* createOrGetProject returned a project of the platform and carries its id
\* and name; a status query is issued only after createDeployment returned a
\* deployment of the platform and carries its id; nothing follows a failed step.
C8_StrictStepOrder ==
  \A p \in Procs :
    entry[p] = "handler"
      => /\ \A i \in 2..Len(calls[p]) : Stage(calls[p][i - 1]) <= Stage(calls[p][i])
         /\ \A i \in 1..Len(calls[p]) :
              /\ Stage(calls[p][i]) = 1 => calls[p][i].name = cleanName(req[p].projectName)
              /\ Stage(calls[p][i]) = 2
                   => /\ i > 1 /\ Stage(calls[p][i - 1]) = 1
                      /\ resolved[p].kind = "return"
                      /\ resolved[p].value \in projects
                      /\ calls[p][i].project = resolved[p].value.id
                      /\ calls[p][i].name = resolved[p].value.name
              /\ Stage(calls[p][i]) = 3
                   => /\ i > 1 /\ Stage(calls[p][i - 1]) \in {2, 3}
                      /\ submitted[p].kind = "return"
                      /\ \E d \in deployments : d.id = submitted[p].value.id
                      /\ calls[p][i].id = submitted[p].value.id
         /\ resolved[p].kind = "throw"
              => /\ \A i \in 1..Len(calls[p]) : Stage(calls[p][i]) = 1
                 /\ submitted[p].kind = "none" /\ waited[p].kind = "none"
         /\ submitted[p].kind = "throw"
              => /\ \A i \in 1..Len(calls[p]) : Stage(calls[p][i]) <= 2
                 /\ waited[p].kind = "none"
         /\ Cardinality({ i \in 1..Len(calls[p]) : calls[p][i].op = "POST /projects" }) <= 1
         /\ Cardinality({ i \in 1..Len(calls[p]) : Stage(calls[p][i]) = 2 }) <= 1

C8_Witness ==
  \E p \in Procs :
    /\ entry[p] = "handler" /\ variant[p] = "A"
    /\ Len(calls[p]) = 5
    /\ calls[p][1].op = "POST /projects" /\ calls[p][2].op = "GET /projects"
    /\ calls[p][3] = Call("POST /deployments", <<"m", "y", "-", "s">>, 1, 0)
    /\ calls[p][4] = Call("GET /deployments", <<>>, 0, 2)
    /\ calls[p][5] = Call("GET /deployments", <<>>, 0, 2)
    /\ resolved[p] = Return([id |-> 1, name |-> <<"m", "y", "-", "s">>])
    /\ submitted[p].kind = "return" /\ submitted[p].value.id = 2


\* needle occurs in message as a run of consecutive parts.
Contains(message, needle) ==
  \E i \in 1..(Len(message) - Len(needle) + 1) :
    SubSeq(message, i, i + Len(needle) - 1) = needle

\* The message of the failure that ended call p: the Error thrown by the
\* first failing step, or the failed check of the handler's own prologue.
OriginatingFailure(p) ==
  IF waited[p].kind = "throw" THEN waited[p].value
  ELSE IF submitted[p].kind = "throw" THEN submitted[p].value
  ELSE IF resolved[p].kind = "throw" THEN resolved[p].value
  ELSE IF variant[p] = "A" /\ ~token THEN DawgTokenMissing
  ELSE IF variant[p] = "A" /\ ~req[p].multipart THEN NotMultipart
  ELSE IF ~req[p].hasBody THEN DestructureError
  ELSE IF ~token THEN VercelTokenMissing
  ELSE IF ~Truthy(req[p].projectName) THEN NameRequired
  ELSE IF req[p].projectName = NotAString THEN NotAFunctionError
  ELSE <<>>

\* C9: a POST invocation sends nothing before it ends and exactly one
\* response when it ends; when a step failed (credential check, validation,
\* resolve, submit, wait) that response is {success:false, error} with the
\* message of the originating failure, and otherwise it is the one success
\* response.
C9_OneUniformResponse ==
  \A p \in Procs :
    (entry[p] = "handler" /\ req[p].method = "POST")
      => /\ Len(responses[p]) = (IF pc[p] = "done" THEN 1 ELSE 0)
         /\ pc[p] = "done"
              => IF OriginatingFailure(p) # <<>>
                 THEN /\ FailureResponse(p)
                      /\ Contains(responses[p][1].body.error, OriginatingFailure(p))
                 ELSE /\ responses[p][1].body.success = TRUE
                      /\ resolved[p].kind = "return" /\ submitted[p].kind = "return"

C9_Witness ==
  \E p \in Procs :
    /\ entry[p] = "handler" /\ req[p].method = "POST" /\ variant[p] = "A"
    /\ pc[p] = "done" /\ FailureResponse(p)
    /\ Len(calls[p]) = 2
    /\ resolved[p].kind = "throw"
    /\ responses[p][1].status = 500
    /\ responses[p][1].body.error =
         <<"Project handling failed: ", "Failed to create/get project: ", "409",
           " - ", "Conflict">>


\* The POST /deployments requests a call has issued.
Submissions(p) ==
  Cardinality({ i \in 1..Len(calls[p]) : calls[p][i].op = "POST /deployments" })

\* The one response of a finished handler call is a success response.
SuccessResponse(p) ==
  /\ Len(responses[p]) = 1
  /\ "success" \in DOMAIN responses[p][1].body
  /\ responses[p][1].body.success = TRUE

\* C11: a run issues at most one POST /deployments (none outside the
\* handler), exactly one when it ends in success, and the platform holds at
\* most one deployment of the run, however many status queries failed or
\* were non-terminal.
C11_OneSubmissionPerRun ==
  /\ Cardinality(deployments) <= 1
  /\ \A p \in Procs :
       /\ Submissions(p) <= 1
       /\ entry[p] # "handler" => Submissions(p) = 0
       /\ SuccessResponse(p)
            => /\ Submissions(p) = 1
               /\ Cardinality(deployments) = 1
               /\ \A d \in deployments : d.id = responses[p][1].body.deploymentId

C11_Witness ==
  \E p \in Procs :
    /\ entry[p] = "handler" /\ variant[p] = "A" /\ SuccessResponse(p)
    /\ seen[p].failedCheck /\ delays[p] >= 2 /\ Polls(p) >= 5
    /\ Submissions(p) = 1 /\ Cardinality(deployments) = 1

\* C12: when the platform creates the project, accepts the deployment and
\* reports READY on the first status query, the response is 200 with
\* {success:true, url: https://{url of the status answer}, projectId,
\* deploymentId, projectName: the sanitized name, siteName}, where siteName
\* is the sanitized name when the request's siteName is absent or empty.
C12_EndToEndSuccess ==
  \A p \in Procs :
    (/\ entry[p] = "handler" /\ variant[p] = "A" /\ pc[p] = "done"
     /\ Len(calls[p]) = 3
     /\ calls[p][1].op = "POST /projects" /\ calls[p][2].op = "POST /deployments"
     /\ calls[p][3].op = "GET /deployments"
     /\ seen[p].ready)
      => LET clean == IF req[p].projectName = <<"M", "y", " ", "S">>
                      THEN <<"m", "y", "-", "s">> ELSE <<"-">>
         IN
         /\ Len(responses[p]) = 1
         /\ responses[p][1].status = 200
         /\ responses[p][1].body =
              [success |-> TRUE, url |-> Https(seen[p].readyUrl),
               projectId |-> resolved[p].value.id,
               deploymentId |-> submitted[p].value.id,
               projectName |-> clean,
               siteName |-> IF req[p].siteName \in {Undefined, <<>>}
                            THEN clean ELSE req[p].siteName]
         /\ \E q \in projects : q.id = resolved[p].value.id /\ q.name = clean
         /\ \E d \in deployments : d.id = submitted[p].value.id

C12_Witness ==
  \E p \in Procs :
    /\ entry[p] = "handler" /\ variant[p] = "A" /\ pc[p] = "done"
    /\ req[p].projectName = <<"M", "y", " ", "S">> /\ req[p].siteName = <<"Cool">>
    /\ Len(calls[p]) = 3 /\ seen[p].ready
    /\ responses[p] =
         << [status |-> 200,
             body |-> [success |-> TRUE, url |-> <<"https://", "my-s-abc.vercel.app">>,
                       projectId |-> 2, deploymentId |-> 3,
                       projectName |-> <<"m", "y", "-", "s">>,
                       siteName |-> <<"Cool">>]] >>

\* C14: between two consecutive status queries exactly one suspension
\* occurs, whatever the earlier query gave (a non-terminal state, a non-2xx
\* answer or a thrown error): a call about to issue its next query has
\* completed as many delays as it has issued queries.
C14_OneDelayBetweenPolls ==
  \A p \in Procs :
    (Waits(p) /\ pc[p] = "poll" /\ ~seen[p].error /\ ~seen[p].canceled)
      => delays[p] = Polls(p)

\* C15: a status check that itself fails (non-2xx or thrown) before the
\* last attempt consumes exactly one attempt and does not end the call:
\* the call only ends by READY or when all maxAttempts queries are spent,
\* and a READY within the budget still returns the URL of that answer.
C15_FailedCheckTolerated ==
  \A p \in Procs :
    (Waits(p) /\ seen[p].failedCheck /\ ~seen[p].error /\ ~seen[p].canceled)
      => /\ pc[p] = "poll"
              => Polls(p) = frame[p].attempt - 1 /\ frame[p].attempt <= frame[p].maxAttempts
         /\ pc[p] = "delay" => Polls(p) = frame[p].attempt
         /\ (waited[p].kind # "none" /\ ~seen[p].ready)
              => Polls(p) = frame[p].maxAttempts
         /\ seen[p].ready
              => /\ waited[p] = Return(Https(seen[p].readyUrl))
                 /\ Polls(p) <= frame[p].maxAttempts

C15_Witness ==
  \E p \in Procs :
    /\ entry[p] = "wait" /\ frame[p].maxAttempts = 3
    /\ seen[p].failedCheck /\ ~seen[p].error /\ ~seen[p].canceled /\ seen[p].ready
    /\ Polls(p) = 3 /\ delays[p] = 0
    /\ waited[p] = Return(Https(AliasHost))


\* The GET /projects/{name} requests a call has issued.
Fetches(p) ==
  Cardinality({ i \in 1..Len(calls[p]) : calls[p][i].op = "GET /projects" })

\* createOrGetProject has ended in call p.
Resolved(p) == resolved[p].kind # "none"

\* C17: createOrGetProject returns a project exactly when the creation was
\* answered 2xx, or it was answered 409 and the fetch by name was answered
\* 2xx (never surfaced as an error); the fetch by name is issued only after
\* a 409.  Otherwise it throws; when the platform answered, the message
\* carries the HTTP status of the creation answer; the handler then answers
\* {success:false, error} and submits no deployment.
C17_ResolveOutcome ==
  \A p \in Procs :
    LET f == frame[p]
        created == f.createResponse.type = "http" /\ ok(f.createResponse.status)
        conflict == f.createResponse.type = "http" /\ f.createResponse.status = 409
        fetched == f.getResponse.type = "http" /\ ok(f.getResponse.status)
    IN
    /\ Fetches(p) <= 1
    /\ Fetches(p) = 1
         => /\ conflict
            /\ Len(calls[p]) >= 2
            /\ calls[p][1].op = "POST /projects" /\ calls[p][2].op = "GET /projects"
            /\ calls[p][2].name = calls[p][1].name
    /\ Resolved(p)
         => /\ resolved[p].kind = "return" <=> (created \/ (conflict /\ fetched))
            /\ created => resolved[p].value = f.createResponse.json
            /\ (conflict /\ fetched) => resolved[p].value = f.getResponse.json
            /\ (resolved[p].kind = "throw" /\ f.createResponse.type = "http"
                  /\ (Fetches(p) = 1 => f.getResponse.type = "http"))
                 => /\ HasPart(resolved[p].value, ToString(f.createResponse.status))
                    /\ ~ok(f.createResponse.status)
            /\ (resolved[p].kind = "throw" /\ entry[p] = "handler")
                 => /\ pc[p] = "done" /\ FailureResponse(p)
                    /\ responses[p][1].body.error = resolved[p].value
                    /\ Submissions(p) = 0 /\ deployments = {}

C17_Witness ==
  \E p \in Procs :
    /\ entry[p] = "handler" /\ variant[p] = "B" /\ pc[p] = "done"
    /\ frame[p].createResponse.status = 409 /\ Fetches(p) = 1
    /\ frame[p].getResponse.type = "http" /\ frame[p].getResponse.status = 500
    /\ resolved[p] =
         Throw(<<"Project creation failed: ", "Failed to create/get project: ", "409">>)
    /\ FailureResponse(p) /\ Submissions(p) = 0

C17_WitnessRecovered ==
  \E p \in Procs :
    /\ entry[p] = "handler" /\ frame[p].createResponse.status = 409
    /\ Fetches(p) = 1 /\ resolved[p] = Return([id |-> 1, name |-> <<"-">>])
    /\ SuccessResponse(p)


\* C16: whatever the status queries give, a call of waitForDeploymentReady
\* issues at most maxAttempts status queries, and, every query and delay
\* completing, it ends with a returned URL or a thrown failure.
C16_BoundedPollingTerminates ==
  /\ [](\A p \in Procs : Waits(p) => Polls(p) <= frame[p].maxAttempts)
  /\ \A p \in Procs :
       (entry[p] = "wait") ~> (pc[p] = "done" /\ waited[p].kind \in {"return", "throw"})

C16_Witness ==
  \E p \in Procs :
    /\ entry[p] = "wait" /\ frame[p].maxAttempts = DefaultMaxAttempts
    /\ Polls(p) = DefaultMaxAttempts /\ pc[p] = "done"
    /\ seen[p].failedCheck /\ seen[p].error /\ seen[p].canceled /\ delays[p] >= 1
    /\ waited[p] = Throw(TimeoutMaxAttempts)

\* ------------------------------------------------------------ sanitizing
\* What the four steps amount to, character by character: each character
\* is lowered and kept when it is in [a-z0-9-], else it becomes '-'; a '-'
\* whose predecessor also gave '-' is dropped; the first 50 are kept.
ExpectedChar(c) ==
  IF c \in UpperChars THEN ToLowerChar(c)
  ELSE IF c \in LowerChars \cup DigitChars \cup {"-"} THEN c
  ELSE "-"
ExpectedKept(raw, i) ==
  ~(i > 1 /\ ExpectedChar(raw[i]) = "-" /\ ExpectedChar(raw[i - 1]) = "-")
\* The characters kept of raw[lo..hi], in order.
RECURSIVE ExpectedPart(_, _, _)
ExpectedPart(raw, lo, hi) ==
  IF lo > hi THEN <<>>
  ELSE IF lo = hi
  THEN IF ExpectedKept(raw, lo) THEN <<ExpectedChar(raw[lo])>> ELSE <<>>
  ELSE ExpectedPart(raw, lo, (lo + hi) \div 2)
         \o ExpectedPart(raw, (lo + hi) \div 2 + 1, hi)
ExpectedName(raw) ==
  LET t == ExpectedPart(raw, 1, Len(raw)) IN
    [i \in 1..(IF Len(t) < MaxNameLen THEN Len(t) ELSE MaxNameLen) |-> t[i]]

\* The handler of call p has passed its validation and sanitized the name.
Sanitized(p) ==
  /\ entry[p] = "handler"
  /\ pc[p] = "createProject" \/ calls[p] # <<>>

\* C13: the sanitized name is the raw name lowered, with every character
\* outside [a-z0-9-] replaced by '-', every run of '-' collapsed to one, and
\* then cut to 50 characters; so it has only characters of [a-z0-9-], at
\* most 50 of them, and no two '-' in a row; "My Cool Site!!!" gives
\* "my-cool-site-".
C13_SanitizedName ==
  \A p \in Procs :
    Sanitized(p) =>
      LET raw == req[p].projectName
          c == frame[p].cleanProjectName
      IN /\ c = ExpectedName(raw)
         /\ \A i \in 1..Len(c) : c[i] \in LowerChars \cup DigitChars \cup {"-"}
         /\ Len(c) <= MaxNameLen
         /\ \A i \in 1..(Len(c) - 1) : ~(c[i] = "-" /\ c[i + 1] = "-")
         /\ raw = MyCoolSite =>
              c = <<"m", "y", "-", "c", "o", "o", "l", "-", "s", "i", "t", "e", "-">>

\* A raw name longer than 50 characters with an uppercase letter and runs
\* of symbols, whose collapsed form is still longer than 50, was cut to 50
\* and sent to the platform.
C13_Witness ==
  \E p \in Procs :
    LET raw == req[p].projectName
        c == frame[p].cleanProjectName
    IN /\ Sanitized(p)
       /\ Len(raw) > MaxNameLen
       /\ \E i \in 1..Len(raw) : raw[i] \in UpperChars
       /\ \E i \in 1..(Len(raw) - 1) : raw[i] = "!" /\ raw[i + 1] = " "
       /\ Len(collapseDashes(replaceInvalid(toLowerCase(raw)))) > MaxNameLen
       /\ Len(c) = MaxNameLen
       /\ calls[p] # <<>> /\ calls[p][1].name = c

\* A raw name without any letter or digit.
AllSymbols(raw) ==
  /\ Len(raw) >= 1
  /\ \A i \in 1..Len(raw) : raw[i] \notin LowerChars \cup UpperChars \cup DigitChars

\* C19: a project name that passes the handler's validation sanitizes to a
\* name of at least one character, so every POST /projects and
\* GET /projects/{name} carries a non-empty name; a name of only symbols or
\* whitespace goes out as "-".
C19_NameSentNeverEmpty ==
  \A p \in Procs :
    Sanitized(p) =>
      LET raw == req[p].projectName
          c == frame[p].cleanProjectName
      IN /\ Len(raw) >= 1
         /\ Len(c) >= 1
         /\ \A i \in 1..Len(calls[p]) :
              Stage(calls[p][i]) = 1 => calls[p][i].name = c
         /\ AllSymbols(raw) => c = <<"-">>

\* A name of symbols and whitespace was both posted and fetched as "-".
C19_Witness ==
  \E p \in Procs :
    /\ req[p].projectName = <<" ", "!", " ">>
    /\ Len(calls[p]) = 2
    /\ calls[p][1] = Call("POST /projects", <<"-">>, 0, 0)
    /\ calls[p][2] = Call("GET /projects", <<"-">>, 0, 0)

\* ------------------------------------------------------- the two variants
\* A request both variants accept: a multipart POST with a project name.
ValidRequest(r) ==
  /\ r.method = "POST" /\ r.multipart /\ r.hasBody
  /\ Truthy(r.projectName) /\ r.projectName # NotAString

\* The project and deployment requests of a call, in order.
Orchestration(p) == SelectSeq(calls[p], LAMBDA c : Stage(c) <= 2)

\* The request a call suspended at a project or deployment fetch sends next.
NextOp(p) ==
  CASE pc[p] = "createProject" -> "POST /projects"
    [] pc[p] = "getProject" -> "GET /projects"
    [] pc[p] = "createDeployment" -> "POST /deployments"
    [] OTHER -> ""

====
